---- MODULE Spec2Model ----
(***************************************************************************)
(* Model of the Syncable Project Dashboard extension: the ConfigManager    *)
(* (persisted configuration, directory scan) and the ProjectDashboard      *)
(* message handlers (select base folder, rescan, refresh group, sort,      *)
(* toggle, export, import, open project) with the re-render each of them   *)
(* ends with.                                                              *)
(*                                                                         *)
(* JavaScript values are encoded as follows.                               *)
(*   - an optional property is None (absent or undefined) or Some(v);      *)
(*   - an object used as a map (projectsData, groupStates) is the sequence *)
(*     of its entries in Object.keys order;                                *)
(*   - a JSON document is the sequence of its <<key, value>> members;      *)
(*   - a directory is the sequence of its entries in enumeration order.    *)
(*                                                                         *)
(* The specifications are Spec, in which every handler runs to completion  *)
(* within one step; Interleaved, in which a handler is suspended at each   *)
(* await on a dialog or on a persistence write and other handlers run in   *)
(* between; FairRender, the interleaved opens and re-renders under         *)
(* fairness of the resumptions; and Colors, the scans of a group over      *)
(* every state of a settings file.                                         *)
(***************************************************************************)
EXTENDS Integers, Sequences, FiniteSets, TLC

VARIABLES config, disk, now, panel, html, shown, exportFile, last, tasks

vars == <<config, disk, now, panel, html, shown, exportFile, last, tasks>>

----------------------------------------------------------------------------
(* Bounds *)

MaxTicks == 2

----------------------------------------------------------------------------
(* Optional values and JavaScript truthiness *)

None == <<>>

Some(v) == <<v>>

IsSet(o) == o # None

Val(o) == o[1]

\* !x for an optional string property: undefined and "" are falsy
TruthyStr(o) == IsSet(o) /\ Val(o) # ""

\* !x for an optional number property: undefined and 0 are falsy
TruthyNum(o) == IsSet(o) /\ Val(o) # 0

\* !x for an optional object property: every object is truthy
TruthyObj(o) == IsSet(o)

----------------------------------------------------------------------------
(* Time: the clock advances in steps of forty-eight hours, so that data    *)
(* scanned before a step is older than one day after it; an age of exactly *)
(* one day occurs with an imported lastScanTime                            *)

TickMs == 48 * 60 * 60 * 1000

DayMs == 24 * 60 * 60 * 1000

DateNow == now * TickMs

----------------------------------------------------------------------------
(* String orders over the names used in the model *)

GroupNames == {"Work", "Home", "apps", "9", "10"}

ProjectNames == {"a", "b", "B", "c"}

\* Array.prototype.sort() without a comparator: UTF-16 code unit order
CodeUnitRank(s) ==
    CASE s = "10" -> 1 [] s = "9" -> 2 [] s = "B" -> 3 [] s = "Home" -> 4
      [] s = "Work" -> 5 [] s = "a" -> 6 [] s = "apps" -> 7 [] s = "b" -> 8
      [] s = "c" -> 9 [] OTHER -> 10

\* String.prototype.localeCompare: collation order, lower case before upper
LocaleRank(s) ==
    CASE s = "10" -> 1 [] s = "9" -> 2 [] s = "a" -> 3 [] s = "apps" -> 4
      [] s = "b" -> 5 [] s = "B" -> 6 [] s = "c" -> 7 [] s = "Home" -> 8
      [] s = "Work" -> 9 [] OTHER -> 10

localeCompare(a, b) == LocaleRank(a) - LocaleRank(b)

\* Property names that are canonical array indices come first in Object.keys
IsIndexKey(s) == s \in {"9", "10"}

IndexOf(s) == IF s = "9" THEN 9 ELSE 10

----------------------------------------------------------------------------
(* JavaScript objects used as maps: entries in Object.keys order *)

Entry(k, v) == [key |-> k, value |-> v]

Keys(obj) == [i \in 1..Len(obj) |-> obj[i].key]

KeySet(obj) == {obj[i].key : i \in 1..Len(obj)}

HasKey(obj, k) == k \in KeySet(obj)

Lookup(obj, k) == obj[CHOOSE i \in 1..Len(obj) : obj[i].key = k].value

\* position at which a new key k is enumerated: index keys in ascending
\* numeric order first, then string keys in insertion order
InsertAt(obj, k) ==
    IF IsIndexKey(k)
    THEN Cardinality({i \in 1..Len(obj) : IsIndexKey(obj[i].key)
                                         /\ IndexOf(obj[i].key) < IndexOf(k)}) + 1
    ELSE Len(obj) + 1

\* obj[k] = v
ObjSet(obj, k, v) ==
    IF HasKey(obj, k)
    THEN [i \in 1..Len(obj) |-> IF obj[i].key = k THEN Entry(k, v) ELSE obj[i]]
    ELSE LET p == InsertAt(obj, k)
         IN  SubSeq(obj, 1, p - 1) \o <<Entry(k, v)>> \o SubSeq(obj, p, Len(obj))

----------------------------------------------------------------------------
(* The persisted configuration (ProjectConfig) and project entries *)

ProjectInfo(n, c) == [name |-> n, color |-> c]

EmptyConfig ==
    [baseProjectsFolder |-> None, projectsData |-> None,
     lastScanTime |-> None, groupStates |-> None]

----------------------------------------------------------------------------
(* The file system: base folders and their two-level content *)

Paths == {"/p1", "/p2"}

Missing == [exists |-> FALSE, entries |-> <<>>]

Folder(es) == [exists |-> TRUE, entries |-> es]

\* .vscode/settings.json of a project
NoSettings == [state |-> "absent", nested |-> None, flat |-> None]

Malformed == [state |-> "malformed", nested |-> None, flat |-> None]

\* the file exists and reading it fails
Unreadable == [state |-> "unreadable", nested |-> None, flat |-> None]

Settings(n, f) == [state |-> "json", nested |-> n, flat |-> f]

ProjDir(n, s) == [name |-> n, isDirectory |-> TRUE, settings |-> s]

PlainFile(n) == [name |-> n, isDirectory |-> FALSE, settings |-> NoSettings]

GroupDir(n, children) ==
    [name |-> n, isDirectory |-> TRUE, readable |-> TRUE, entries |-> children]

LockedDir(n) ==
    [name |-> n, isDirectory |-> TRUE, readable |-> FALSE, entries |-> <<>>]

TopFile(n) ==
    [name |-> n, isDirectory |-> FALSE, readable |-> TRUE, entries |-> <<>>]

TreeA ==
    Folder(<< GroupDir("Work", << ProjDir("b", NoSettings),
                                  ProjDir("a", Settings(Some("#ff0000"), None)) >>),
              TopFile("notes.txt"),
              GroupDir("Home", << ProjDir("c", Malformed),
                                  PlainFile("readme.md") >>) >>)

TreeB ==
    Folder(<< GroupDir("Work", << ProjDir("a", Settings(None, Some("#00ff00"))),
                                  ProjDir("B", NoSettings) >>),
              LockedDir("apps") >>)

TreeD ==
    Folder(<< GroupDir("9", << ProjDir("c", NoSettings) >>),
              GroupDir("10", << ProjDir("b", Settings(Some("#ff0000"), Some("#00ff00"))),
                                ProjDir("a", NoSettings) >>) >>)

\* the contents each base folder takes in the model
Trees == [p \in Paths |-> IF p = "/p1" THEN {TreeA, TreeB, Missing}
                          ELSE {TreeD}]

\* fs.existsSync(path) for a base folder path
existsSync(path) == path \in Paths /\ disk[path].exists

\* fs.existsSync(path.join(base, name))
existsSyncIn(path, name) ==
    existsSync(path)
    /\ \E i \in 1..Len(disk[path].entries) : disk[path].entries[i].name = name

DirEntry(path, name) ==
    LET d == disk[path].entries
    IN  d[CHOOSE i \in 1..Len(d) : d[i].name = name]

\* a listing that keeps plain files as well
OnlyDirectories_KeepsFiles(entries) == entries

\* .filter(dirent => dirent.isDirectory())
OnlyDirectories(entries) == SelectSeq(entries, LAMBDA e : e.isDirectory)

\* .filter(dirent => dirent.isDirectory()).map(dirent => dirent.name)
DirNames(entries) ==
    LET dirs == OnlyDirectories(entries)
    IN  [i \in 1..Len(dirs) |-> dirs[i].name]

----------------------------------------------------------------------------
(* ConfigManager *)

\* a colour lookup that prefers the flat key
getProjectColor_FlatFirst(settings) ==
    IF settings.state # "json" THEN None
    ELSE IF TruthyStr(settings.flat) THEN settings.flat
    ELSE IF TruthyStr(settings.nested) THEN settings.nested
    ELSE None

\* getProjectColor: the activity bar colour of a project, or undefined
getProjectColor(settings) ==
    IF settings.state # "json" THEN None
    ELSE IF TruthyStr(settings.nested) THEN settings.nested
    ELSE IF TruthyStr(settings.flat) THEN settings.flat
    ELSE None

\* the loop that lists one group folder: a ProjectInfo per project directory
ProjectInfoList(entries) ==
    LET dirs == OnlyDirectories(entries)
    IN  [i \in 1..Len(dirs) |->
            ProjectInfo(dirs[i].name, getProjectColor(dirs[i].settings))]

Thrown(msg) == [ok |-> FALSE, error |-> msg, config |-> EmptyConfig]

Returned(cfg) == [ok |-> TRUE, error |-> "", config |-> cfg]

RECURSIVE ScanGroups(_, _, _)
\* the for-loop of scanProjects over groupFolders[i..]; acc is projectsData
ScanGroups(groups, i, acc) ==
    IF i > Len(groups) THEN [ok |-> TRUE, data |-> acc]
    ELSE IF ~groups[i].readable THEN [ok |-> FALSE, data |-> acc]
    ELSE ScanGroups(groups, i + 1,
                    ObjSet(acc, groups[i].name, ProjectInfoList(groups[i].entries)))

\* scanProjects applied to the persisted configuration cfg: the thrown error,
\* or the configuration it saves and returns
scanProjects(cfg) ==
    IF ~TruthyStr(cfg.baseProjectsFolder)
    THEN Thrown("Base projects folder not set")
    ELSE IF ~existsSync(Val(cfg.baseProjectsFolder))
    THEN Thrown("Base projects folder does not exist")
    ELSE LET r == ScanGroups(OnlyDirectories(disk[Val(cfg.baseProjectsFolder)].entries),
                             1, <<>>)
         IN  IF ~r.ok THEN Thrown("EACCES: permission denied, scandir")
             ELSE Returned([cfg EXCEPT !.projectsData = Some(r.data),
                                       !.lastScanTime = Some(DateNow)])

----------------------------------------------------------------------------
(* ProjectDashboard: the state a handler works on                          *)
(*   config     the value held by globalState under the configuration key  *)
(*   panel      whether this.panel is set                                  *)
(*   html       which page panel.webview.html holds                        *)
(*   shown      what the dashboard page shows (None on the other pages)    *)
(*   file       the exported JSON file                                     *)
(*   errors, infos, opened, scans, renders                                 *)
(*              what the handler has done so far: error messages,          *)
(*              information messages, folders handed to vscode.openFolder, *)
(*              the number of completed scanProjects calls and the number  *)
(*              of dashboard pages written to the panel                    *)

saveConfig(m, cfg) == [m EXCEPT !.config = cfg]

showErrorMessage(m, prefix, cause) ==
    [m EXCEPT !.errors = Append(@, <<prefix, cause>>)]

showInformationMessage(m, text) == [m EXCEPT !.infos = Append(@, text)]

\* an expand rule under which a group without a recorded state is open
IsExpanded_DefaultOpen(states, g) ==
    ~(IsSet(states) /\ HasKey(Val(states), g) /\ Lookup(Val(states), g) = FALSE)

\* savedGroupStates[groupName] === true
IsExpanded(states, g) ==
    IsSet(states) /\ HasKey(Val(states), g) /\ Lookup(Val(states), g) = TRUE

\* getDashboardHtml(cfg): the page assigned to panel.webview.html
getDashboardHtml(m, cfg) ==
    IF ~TruthyStr(cfg.baseProjectsFolder) \/ ~TruthyObj(cfg.projectsData)
    THEN [m EXCEPT !.html = "noFolder", !.shown = None]
    ELSE [m EXCEPT !.html = "dashboard",
                   !.shown = Some([baseProjectsFolder |-> cfg.baseProjectsFolder,
                                   projectsData |-> Val(cfg.projectsData),
                                   lastScanTime |-> cfg.lastScanTime,
                                   expanded |-> {g \in KeySet(Val(cfg.projectsData)) :
                                                   IsExpanded(m.config.groupStates, g)}]),
                   !.renders = @ + 1]

\* a staleness test that never looks at the age of the data
IsStale_IgnoresAge(cfg) ==
    \/ ~TruthyObj(cfg.projectsData)
    \/ ~TruthyNum(cfg.lastScanTime)

\* the staleness test of updateWebview
IsStale(cfg) ==
    \/ ~TruthyObj(cfg.projectsData)
    \/ ~TruthyNum(cfg.lastScanTime)
    \/ DateNow - Val(cfg.lastScanTime) > DayMs

\* a setBaseProjectsFolder that starts the new base folder with no catalog
setBaseProjectsFolder_DropsCatalog(m, pick) ==
    IF ~IsSet(pick) THEN [m |-> m, thrown |-> None, result |-> None]
    ELSE IF ~existsSync(Val(pick))
    THEN [m |-> m, thrown |-> Some("Folder does not exist"), result |-> None]
    ELSE [m |-> saveConfig(m, [m.config EXCEPT !.baseProjectsFolder = pick,
                                               !.projectsData = None]),
          thrown |-> None, result |-> pick]

\* setBaseProjectsFolder(): pick is the folder chosen in the dialog, None when
\* the dialog is cancelled; result is the returned path, None for undefined
setBaseProjectsFolder(m, pick) ==
    IF ~IsSet(pick) THEN [m |-> m, thrown |-> None, result |-> None]
    ELSE IF ~existsSync(Val(pick))
    THEN [m |-> m, thrown |-> Some("Folder does not exist"), result |-> None]
    ELSE [m |-> saveConfig(m, [m.config EXCEPT !.baseProjectsFolder = pick]),
          thrown |-> None, result |-> pick]

RECURSIVE updateWebview(_, _)
RECURSIVE handleSelectBaseFolder(_, _)

\* updateWebview; pick is the answer to the folder dialog, should it open
updateWebview(m, pick) ==
    IF ~m.panel THEN m
    ELSE
      LET m1 == IF ~TruthyStr(m.config.baseProjectsFolder)
                THEN handleSelectBaseFolder(m, pick)
                ELSE m
      IN  IF ~TruthyStr(m1.config.baseProjectsFolder)
          THEN [m1 EXCEPT !.html = "noFolder", !.shown = None]
          ELSE IF IsStale(m1.config)
          THEN LET r == scanProjects(m1.config)
               IN  IF r.ok
                   THEN getDashboardHtml(
                            [saveConfig(m1, r.config) EXCEPT !.scans = @ + 1],
                            r.config)
                   ELSE [showErrorMessage(m1, "Failed to scan projects", r.error)
                            EXCEPT !.html = "error", !.shown = None]
          ELSE getDashboardHtml(m1, m1.config)

\* handleSelectBaseFolder; pick is the answer to the folder dialog
handleSelectBaseFolder(m, pick) ==
    LET s == setBaseProjectsFolder(m, pick)
    IN  IF IsSet(s.thrown)
        THEN showErrorMessage(m, "Failed to set base folder", Val(s.thrown))
        ELSE IF ~IsSet(s.result) THEN m
        ELSE LET m1 == s.m
                 r  == scanProjects(m1.config)
             IN  IF r.ok
                 THEN updateWebview(
                          [saveConfig(m1, r.config) EXCEPT !.scans = @ + 1], pick)
                 ELSE showErrorMessage(m1, "Failed to set base folder", r.error)

\* a rescan that forgets the catalog when the scan fails
rescanProjects_ClearsOnFailure(m) ==
    LET r == scanProjects(m.config)
    IN  IF r.ok
        THEN updateWebview([saveConfig(m, r.config) EXCEPT !.scans = @ + 1], None)
        ELSE showErrorMessage(
                saveConfig(m, [m.config EXCEPT !.projectsData = None,
                                               !.lastScanTime = None]),
                "Failed to scan projects", r.error)

rescanProjects(m) ==
    LET r == scanProjects(m.config)
    IN  IF r.ok
        THEN updateWebview([saveConfig(m, r.config) EXCEPT !.scans = @ + 1], None)
        ELSE showErrorMessage(m, "Failed to scan projects", r.error)

\* a refresh that drops the entry of a group whose folder is gone
refreshGroup_DropsMissing(m, groupName) ==
    IF TruthyStr(m.config.baseProjectsFolder)
       /\ existsSyncIn(Val(m.config.baseProjectsFolder), groupName)
    THEN updateWebview(m, None)
    ELSE showErrorMessage(
            saveConfig(m, [m.config EXCEPT !.projectsData =
                  IF IsSet(@)
                  THEN Some(SelectSeq(Val(@), LAMBDA e : e.key # groupName))
                  ELSE @]),
            "Failed to refresh group", "Group folder does not exist")

\* a refresh that re-renders without listing the group folder
refreshGroup_KeepsOld(m, groupName) ==
    IF TruthyStr(m.config.baseProjectsFolder)
       /\ existsSyncIn(Val(m.config.baseProjectsFolder), groupName)
    THEN updateWebview(m, None)
    ELSE showErrorMessage(m, "Failed to refresh group", "Group folder does not exist")

refreshGroup(m, groupName) ==
    LET cfg == m.config
        fail(cause) == showErrorMessage(m, "Failed to refresh group", cause)
    IN  IF ~TruthyStr(cfg.baseProjectsFolder)
        THEN fail("Base projects folder not set")
        ELSE IF ~existsSyncIn(Val(cfg.baseProjectsFolder), groupName)
        THEN fail("Group folder does not exist")
        ELSE
          LET dir == DirEntry(Val(cfg.baseProjectsFolder), groupName)
          IN  IF ~dir.isDirectory THEN fail("ENOTDIR: not a directory, scandir")
              ELSE IF ~dir.readable THEN fail("EACCES: permission denied, scandir")
              ELSE
                LET data == IF TruthyObj(cfg.projectsData)
                            THEN Val(cfg.projectsData) ELSE <<>>
                    new  == ObjSet(data, groupName, ProjectInfoList(dir.entries))
                IN  updateWebview(
                        saveConfig(m, [cfg EXCEPT !.projectsData = Some(new)]),
                        None)

----------------------------------------------------------------------------
(* Sorting *)

SortKeys == {"group-asc", "group-desc", "name-asc", "name-desc", "color"}

\* the comparator passed to projects.sort for name-asc and name-desc
Compare(sortBy, a, b) ==
    IF sortBy = "name-asc" THEN localeCompare(a.name, b.name)
    ELSE localeCompare(b.name, a.name)

\* where a stable sort places x among the already sorted prefix
StableInsert(sorted, x, sortBy) ==
    LET p == Cardinality({i \in 1..Len(sorted) : Compare(sortBy, sorted[i], x) <= 0})
    IN  SubSeq(sorted, 1, p) \o <<x>> \o SubSeq(sorted, p + 1, Len(sorted))

RECURSIVE StableSort(_, _, _)
\* Array.prototype.sort(comparator): stable, applied to projects[1..n]
StableSort(projects, n, sortBy) ==
    IF n = 0 THEN <<>>
    ELSE StableInsert(StableSort(projects, n - 1, sortBy), projects[n], sortBy)

\* the switch over sortBy inside the per-group loop
SortGroupProjects(projects, sortBy) ==
    IF sortBy \in {"name-asc", "name-desc"}
    THEN StableSort(projects, Len(projects), sortBy)
    ELSE projects

RECURSIVE SortStrings(_, _)
\* Object.keys(...).sort(): ascending code unit order of keys[1..n]
SortStrings(keys, n) ==
    IF n = 0 THEN <<>>
    ELSE LET rest == SortStrings(keys, n - 1)
             p == Cardinality({i \in 1..Len(rest) :
                                 CodeUnitRank(rest[i]) <= CodeUnitRank(keys[n])})
         IN  SubSeq(rest, 1, p) \o <<keys[n]>> \o SubSeq(rest, p + 1, Len(rest))

Reverse(seq) == [i \in 1..Len(seq) |-> seq[Len(seq) + 1 - i]]

\* a rebuild that keeps the first of the sorted groups only
Rebuild_FirstOnly(data, sortedGroups, i, acc) ==
    IF Len(sortedGroups) = 0 THEN acc
    ELSE ObjSet(acc, sortedGroups[1], Lookup(data, sortedGroups[1]))

RECURSIVE Rebuild(_, _, _, _)
\* the loop that fills sortedProjectsData from sortedGroups[i..]
Rebuild(data, sortedGroups, i, acc) ==
    IF i > Len(sortedGroups) THEN acc
    ELSE Rebuild(data, sortedGroups, i + 1,
                 ObjSet(acc, sortedGroups[i], Lookup(data, sortedGroups[i])))

\* the projectsData that sortProjects computes from data
SortedData(data, sortBy) ==
    IF sortBy \in {"group-asc", "group-desc"}
    THEN LET asc == SortStrings(Keys(data), Len(data))
             sortedGroups == IF sortBy = "group-desc" THEN Reverse(asc) ELSE asc
         IN  Rebuild(data, sortedGroups, 1, <<>>)
    ELSE [i \in 1..Len(data) |->
            Entry(data[i].key, SortGroupProjects(data[i].value, sortBy))]

sortProjects(m, sortBy) ==
    IF ~TruthyObj(m.config.projectsData) THEN m
    ELSE updateWebview(
            saveConfig(m, [m.config EXCEPT
                             !.projectsData = Some(SortedData(Val(@), sortBy))]),
            None)

----------------------------------------------------------------------------
(* Open project, toggle group *)

\* an open that resolves the project under the base folder the page shows
handleOpenProject_UsesPage(m, groupName, projectName) ==
    IF ~IsSet(m.shown) THEN m
    ELSE [m EXCEPT !.opened =
            Append(@, <<Val(Val(m.shown).baseProjectsFolder), groupName, projectName>>)]

\* projectPath is "<group>/<project>", given as the pair it splits into
handleOpenProject(m, groupName, projectName) ==
    IF ~TruthyStr(m.config.baseProjectsFolder) THEN m
    ELSE [m EXCEPT !.opened =
            Append(@, <<Val(m.config.baseProjectsFolder), groupName, projectName>>)]

\* a toggle that starts groupStates afresh
handleToggleGroup_FreshStates(m, groupName, expanded) ==
    saveConfig(m, [m.config EXCEPT
                     !.groupStates = Some(ObjSet(<<>>, groupName, expanded))])

handleToggleGroup(m, groupName, expanded) ==
    LET states == IF TruthyObj(m.config.groupStates)
                  THEN Val(m.config.groupStates) ELSE <<>>
    IN  saveConfig(m, [m.config EXCEPT
                         !.groupStates = Some(ObjSet(states, groupName, expanded))])

----------------------------------------------------------------------------
(* JSON documents: the sequence of <<key, value>> members of an object *)

Member(members, key) ==
    LET hits == {i \in 1..Len(members) : members[i][1] = key}
    IN  IF hits = {} THEN None
        ELSE Some(members[CHOOSE i \in hits : \A j \in hits : j <= i][2])

\* JSON.stringify omits properties whose value is undefined
StringifyProject(p) ==
    << <<"name", p.name>> >>
    \o (IF IsSet(p.color) THEN << <<"color", Val(p.color)>> >> ELSE <<>>)

StringifyData(data) ==
    [i \in 1..Len(data) |->
        <<data[i].key,
          [j \in 1..Len(data[i].value) |-> StringifyProject(data[i].value[j])]>>]

StringifyStates(states) ==
    [i \in 1..Len(states) |-> <<states[i].key, states[i].value>>]

\* JSON.stringify(exportConfig, null, 2)
JsonStringify(cfg) ==
    [parsable |-> TRUE,
     members |->
        (IF IsSet(cfg.baseProjectsFolder)
         THEN << <<"baseProjectsFolder", Val(cfg.baseProjectsFolder)>> >> ELSE <<>>)
        \o (IF IsSet(cfg.projectsData)
            THEN << <<"projectsData", StringifyData(Val(cfg.projectsData))>> >>
            ELSE <<>>)
        \o (IF IsSet(cfg.groupStates)
            THEN << <<"groupStates", StringifyStates(Val(cfg.groupStates))>> >>
            ELSE <<>>)
        \o (IF IsSet(cfg.lastScanTime)
            THEN << <<"lastScanTime", Val(cfg.lastScanTime)>> >> ELSE <<>>)]

ParseProject(members) == ProjectInfo(Val(Member(members, "name")),
                                     Member(members, "color"))

ParseProjects(list) == [j \in 1..Len(list) |-> ParseProject(list[j])]

RECURSIVE ParseData(_, _, _)
\* the projectsData object built member by member
ParseData(members, i, acc) ==
    IF i > Len(members) THEN acc
    ELSE ParseData(members, i + 1,
                   ObjSet(acc, members[i][1], ParseProjects(members[i][2])))

RECURSIVE ParseStates(_, _, _)
\* the groupStates object built member by member
ParseStates(members, i, acc) ==
    IF i > Len(members) THEN acc
    ELSE ParseStates(members, i + 1, ObjSet(acc, members[i][1], members[i][2]))

\* JSON.parse(jsonContent) of a parsable document, read as a ProjectConfig
JsonParse(doc) ==
    LET base   == Member(doc.members, "baseProjectsFolder")
        data   == Member(doc.members, "projectsData")
        states == Member(doc.members, "groupStates")
        time   == Member(doc.members, "lastScanTime")
    IN  [baseProjectsFolder |-> base,
         projectsData |-> IF IsSet(data) THEN Some(ParseData(Val(data), 1, <<>>))
                          ELSE None,
         lastScanTime |-> time,
         groupStates |-> IF IsSet(states) THEN Some(ParseStates(Val(states), 1, <<>>))
                         ELSE None]

----------------------------------------------------------------------------
(* The search box of the dashboard page *)

\* the characters of the strings that are searched and searched for
Chars(str) ==
    CASE str = "" -> <<>>
      [] str = "a" -> <<"a">>
      [] str = "b" -> <<"b">>
      [] str = "B" -> <<"B">>
      [] str = "c" -> <<"c">>
      [] str = "ab" -> <<"a", "b">>

toLowerCase(chars) ==
    [i \in 1..Len(chars) |-> IF chars[i] = "B" THEN "b" ELSE chars[i]]

\* String.prototype.includes
includes(text, term) ==
    \E k \in 0..Len(text) :
        /\ k + Len(term) <= Len(text)
        /\ SubSeq(text, k + 1, k + Len(term)) = term

\* the input listener of searchInput on the page showing data: the projects
\* and the groups whose style.display it leaves other than 'none'
searchInput(data, value) ==
    LET searchTerm == toLowerCase(Chars(value))
        isVisible(project) ==
            includes(toLowerCase(Chars(project.name)), searchTerm)
        visibleProjects(i) ==
            {j \in 1..Len(data[i].value) : isVisible(data[i].value[j])}
    IN  [projects |-> UNION {{<<data[i].key, data[i].value[j].name>> :
                                 j \in visibleProjects(i)} : i \in 1..Len(data)},
         groups |-> {data[i].key :
                        i \in {k \in 1..Len(data) : visibleProjects(k) # {}}}]

----------------------------------------------------------------------------
(* Export and import *)

\* saved is whether the save dialog returned a file
handleExportConfig(m, saved) ==
    IF ~saved THEN m
    ELSE showInformationMessage(
            [m EXCEPT !.file = Some(JsonStringify(
                [baseProjectsFolder |-> m.config.baseProjectsFolder,
                 projectsData |-> m.config.projectsData,
                 groupStates |-> m.config.groupStates,
                 lastScanTime |-> m.config.lastScanTime]))],
            "Configuration exported successfully!")

\* a validation that only asks for the base folder
IsValidImport_BaseOnly(importedConfig) ==
    TruthyStr(importedConfig.baseProjectsFolder)

\* the validation of the imported configuration
IsValidImport(importedConfig) ==
    /\ TruthyStr(importedConfig.baseProjectsFolder)
    /\ TruthyObj(importedConfig.projectsData)

\* an import that saves the parsed document before it validates it
handleImportConfig_SavesRejected(m, choice, answer, pick) ==
    IF ~IsSet(choice) THEN m
    ELSE IF ~Val(choice).parsable
    THEN showErrorMessage(m, "Failed to import configuration", "SyntaxError")
    ELSE
      LET importedConfig == JsonParse(Val(choice))
          saved == saveConfig(m, importedConfig)
      IN  IF /\ IsValidImport(importedConfig)
             /\ existsSync(Val(importedConfig.baseProjectsFolder))
          THEN showInformationMessage(updateWebview(saved, None),
                                      "Configuration imported successfully!")
          ELSE showErrorMessage(saved, "Failed to import configuration",
                                "Invalid configuration file")

\* choice is the document picked in the open dialog (None when cancelled),
\* answer the button pressed on the missing-folder warning, pick the answer
\* to the folder dialog of handleSelectBaseFolder
handleImportConfig(m, choice, answer, pick) ==
    LET fail(mm, cause) ==
            showErrorMessage(mm, "Failed to import configuration", cause)
        finish(mm, imported) ==
            showInformationMessage(
                updateWebview(saveConfig(mm, imported), None),
                "Configuration imported successfully!")
    IN  IF ~IsSet(choice) THEN m
        ELSE IF ~Val(choice).parsable THEN fail(m, "SyntaxError")
        ELSE
          LET importedConfig == JsonParse(Val(choice))
          IN  IF ~IsValidImport(importedConfig)
              THEN fail(m, "Invalid configuration file")
              ELSE IF existsSync(Val(importedConfig.baseProjectsFolder))
              THEN finish(m, importedConfig)
              ELSE IF answer = "Yes"
              THEN LET m1 == handleSelectBaseFolder(m, pick)
                   IN  IF TruthyStr(m1.config.baseProjectsFolder)
                       THEN finish(m1, [importedConfig EXCEPT
                                !.baseProjectsFolder = m1.config.baseProjectsFolder])
                       ELSE fail(m1, "No base folder selected")
              ELSE fail(m, "Base folder does not exist")

----------------------------------------------------------------------------
(* Documents a user may pick in the import dialog *)

FileFull ==
    [parsable |-> TRUE,
     members |-> <<
        <<"baseProjectsFolder", "/p1">>,
        <<"projectsData",
          << <<"Work", << << <<"name", "b">> >>,
                          << <<"name", "a">>, <<"color", "#ff0000">> >> >> >>,
             <<"apps", << >> >> >> >>,
        <<"groupStates", << <<"apps", FALSE>>, <<"Work", TRUE>> >> >>,
        <<"lastScanTime", TickMs - DayMs>> >>]

FileMinimal ==
    [parsable |-> TRUE,
     members |-> <<
        <<"baseProjectsFolder", "/p2">>,
        <<"projectsData", << <<"Home", << << <<"name", "a">> >> >> >> >> >> >>]

FileGone ==
    [parsable |-> TRUE,
     members |-> <<
        <<"baseProjectsFolder", "/gone">>,
        <<"projectsData", << <<"Home", << << <<"name", "B">> >>,
                                          << <<"name", "a">> >> >> >> >> >>,
        <<"lastScanTime", 2 * TickMs>> >>]

FileNoData ==
    [parsable |-> TRUE,
     members |-> << <<"baseProjectsFolder", "/p1">>,
                    <<"lastScanTime", 2 * TickMs>> >>]

FileNoBase ==
    [parsable |-> TRUE,
     members |-> << <<"projectsData", << <<"Home", << >> >> >> >>,
                    <<"groupStates", << <<"Home", TRUE>> >> >> >>]

FileBroken == [parsable |-> FALSE, members |-> <<>>]

SampleFiles == {FileFull, FileMinimal, FileGone, FileNoData, FileNoBase, FileBroken}

Answers == {"Yes", "No", "dismissed"}

----------------------------------------------------------------------------
(* The state machine: one step per user action, run to completion *)

\* the group headers of the page the handler has just replaced that the new
\* page no longer has, each with the state a click on it posts: a message
\* posted from the old page is still delivered to onDidReceiveMessage
Replaced(m) ==
    IF ~m.panel \/ html # "dashboard" THEN {}
    ELSE LET kept == IF IsSet(m.shown) THEN KeySet(Val(m.shown).projectsData)
                     ELSE {}
         IN  {<<g, g \notin Val(shown).expanded>> :
                 g \in KeySet(Val(shown).projectsData) \ kept}

\* what `last` records of the most recent step: the action, the arguments of
\* its message, and what the handler surfaced and did
Record(op, arg, m) ==
    [op |-> op, arg |-> arg, errors |-> m.errors, infos |-> m.infos,
     opened |-> m.opened, scans |-> m.scans, renders |-> m.renders,
     replaced |-> Replaced(m)]

Begin ==
    [config |-> config, panel |-> panel, html |-> html, shown |-> shown,
     file |-> exportFile, errors |-> <<>>, infos |-> <<>>, opened |-> <<>>,
     scans |-> 0, renders |-> 0]

\* the exported file is kept until the next user action: it is imported
\* right away or not at all
Commit(m, op, arg) ==
    /\ config' = m.config
    /\ panel' = m.panel
    /\ html' = m.html
    /\ shown' = m.shown
    /\ exportFile' = IF op = "exportConfig" THEN m.file ELSE None
    /\ last' = Record(op, arg, m)
    /\ UNCHANGED <<disk, now, tasks>>

\* the handlers suspended at an await, by the order in which they started:
\* none where every handler runs to completion within its step
Slots == {1, 2}

Idle == [op |-> "idle", arg |-> <<>>, stack |-> <<>>, cfg |-> None]

NoTasks == [s \in Slots |-> Idle]

\* the group headers the user clicks on
ToggleGroups == {"Work"}

Picks == {None} \cup {Some(p) : p \in Paths}

Init ==
    /\ config = EmptyConfig
    /\ disk = [p \in Paths |-> IF p = "/p1" THEN TreeA ELSE TreeD]
    /\ now = 1
    /\ panel = FALSE
    /\ html = "none"
    /\ shown = None
    /\ exportFile = None
    /\ last = Record("init", <<>>, Begin)
    /\ tasks = NoTasks

\* activation, or the showDashboard command, with no panel yet
OpenWith(pick) ==
    /\ ~panel
    /\ Commit(updateWebview([Begin EXCEPT !.panel = TRUE], pick), "open", <<>>)

Open == \E pick \in Picks : OpenWith(pick)

\* the user closes the panel
Dispose ==
    /\ panel
    /\ Commit([Begin EXCEPT !.panel = FALSE, !.html = "none", !.shown = None],
              "dispose", <<>>)

SelectBaseFolderWith(pick) ==
    /\ panel
    /\ html \in {"noFolder", "error", "dashboard"}
    /\ Commit(handleSelectBaseFolder(Begin, pick), "selectBaseFolder", <<>>)

SelectBaseFolder == \E pick \in Picks : SelectBaseFolderWith(pick)

Rescan ==
    /\ panel
    /\ html \in {"error", "dashboard"}
    /\ Commit(rescanProjects(Begin), "rescanProjects", <<>>)

\* the groups and projects the dashboard page has buttons for
ShownGroups == IF html = "dashboard" THEN KeySet(Val(shown).projectsData) ELSE {}

\* the groups whose buttons were on the page the last step replaced
ReplacedGroups == {c[1] : c \in last.replaced}

RefreshGroupOf(g) ==
    /\ panel
    /\ g \in ShownGroups
    /\ Commit(refreshGroup(Begin, g), "refreshGroup", <<g>>)

\* the refresh buttons whose click is followed that far
LateRefreshGroups == {"Home"}

\* a click on the refresh button of the replaced page, delivered now
RefreshReplacedOf(g) ==
    /\ panel
    /\ g \in ReplacedGroups
    /\ Commit(refreshGroup(Begin, g), "refreshGroup", <<g>>)

RefreshGroup == \E g \in GroupNames : RefreshGroupOf(g)

RefreshReplaced == \E g \in LateRefreshGroups : RefreshReplacedOf(g)

SortBy(k) ==
    /\ panel
    /\ html = "dashboard"
    /\ Commit(sortProjects(Begin, k), "sortProjects", <<k>>)

Sort == \E k \in SortKeys : SortBy(k)

\* a click on a group header flips the group in the page and posts the result
ToggleOf(g) ==
    /\ panel
    /\ g \in ShownGroups
    /\ LET isExpanded == g \notin Val(shown).expanded
           page == [Val(shown) EXCEPT !.expanded =
                       IF isExpanded THEN @ \cup {g} ELSE @ \ {g}]
       IN  Commit(handleToggleGroup([Begin EXCEPT !.shown = Some(page)],
                                    g, isExpanded),
                  "toggleGroup", <<g, isExpanded>>)

\* a click on a group header of the replaced page, delivered now
ToggleReplacedOf(g) ==
    /\ panel
    /\ \E c \in last.replaced :
          /\ c[1] = g
          /\ Commit(handleToggleGroup(Begin, g, c[2]), "toggleGroup", <<g, c[2]>>)

Toggle == \E g \in ToggleGroups : ToggleOf(g)

ToggleReplaced == \E g \in ToggleGroups : ToggleReplacedOf(g)

\* the projects the user clicks on, as <<group, project>>
OpenClicks == {<<"Work", "a">>, <<"9", "c">>}

OpenProjectOf(g, n) ==
    /\ panel
    /\ <<g, n>> \in OpenClicks
    /\ g \in ShownGroups
    /\ \E j \in 1..Len(Lookup(Val(shown).projectsData, g)) :
          Lookup(Val(shown).projectsData, g)[j].name = n
    /\ Commit(handleOpenProject(Begin, g, n), "openProject", <<g, n>>)

OpenProject == \E g \in GroupNames : \E n \in ProjectNames : OpenProjectOf(g, n)

\* what the user types into the search box
Queries == {"", "B"}

\* the text in the search box: typed in the last step, or still empty
SearchText == IF last.op = "search" THEN last.arg[1] ELSE ""

\* an input event of the search box; the page posts no message
SearchFor(q) ==
    /\ panel
    /\ html = "dashboard"
    /\ q # SearchText
    /\ Commit(Begin, "search", <<q, searchInput(Val(shown).projectsData, q)>>)

Search == \E q \in Queries : SearchFor(q)

ExportWith(saved) ==
    /\ panel
    /\ html = "dashboard"
    /\ Commit(handleExportConfig(Begin, saved), "exportConfig", <<>>)

Export == \E saved \in BOOLEAN : ExportWith(saved)

\* whether importing the document opens the missing-folder warning
AsksForFolder(choice) ==
    /\ IsSet(choice)
    /\ Val(choice).parsable
    /\ IsValidImport(JsonParse(Val(choice)))
    /\ ~existsSync(Val(JsonParse(Val(choice)).baseProjectsFolder))

ImportWith(choice, answer, pick) ==
    /\ panel
    /\ html = "dashboard"
    /\ Commit(handleImportConfig(Begin, choice, answer, pick), "importConfig", <<>>)

\* the documents the import dialog can return
Choices ==
    {None} \cup {Some(f) : f \in SampleFiles}
           \cup (IF IsSet(exportFile) THEN {exportFile} ELSE {})

Import ==
    \E choice \in Choices :
        \E answer \in (IF AsksForFolder(choice) THEN Answers ELSE {"none"}) :
            \E pick \in (IF answer = "Yes" THEN Picks ELSE {None}) :
                ImportWith(choice, answer, pick)

\* two days pass
Tick ==
    /\ now < MaxTicks
    /\ now' = now + 1
    /\ last' = Record("tick", <<>>, Begin)
    /\ UNCHANGED <<config, disk, panel, html, shown, exportFile, tasks>>

\* somebody changes the content of a base folder, or removes it
DiskChange ==
    \E p \in Paths :
        \E t \in Trees[p] :
            /\ t # disk[p]
            /\ disk' = [disk EXCEPT ![p] = t]
            /\ last' = Record("disk", <<>>, Begin)
            /\ UNCHANGED <<config, now, panel, html, shown, exportFile, tasks>>

Next ==
    \/ Open
    \/ Dispose
    \/ SelectBaseFolder
    \/ Rescan
    \/ RefreshGroup
    \/ RefreshReplaced
    \/ Sort
    \/ Toggle
    \/ ToggleReplaced
    \/ OpenProject
    \/ Search
    \/ Export
    \/ Import
    \/ Tick
    \/ DiskChange

Spec == Init /\ [][Next]_vars

----------------------------------------------------------------------------
(* Interleaved handlers. A handler runs until it awaits a dialog or a      *)
(* persistence write, and is resumed when the dialog is answered or the    *)
(* write is acknowledged; what runs between two awaits runs without        *)
(* interruption. globalState.update replaces the value that getConfig      *)
(* returns at the call, and its promise resolves later.                    *)
(*                                                                         *)
(* A suspended handler is the sequence of its frames, outermost first: a   *)
(* frame <<f, g>> is function f waiting for g, the last frame waiting for  *)
(* a dialog or for saveConfig. cfg is the configuration that a suspended   *)
(* scanProjects will return.                                               *)

Top(stack) == stack[Len(stack)]

Pop(stack) == SubSeq(stack, 1, Len(stack) - 1)

Suspended(m, stack, cfg) == [m |-> m, stack |-> stack, cfg |-> cfg]

\* the updateWebview and handleSelectBaseFolder activations among the frames
Chain(stack) ==
    SelectSeq([i \in 1..Len(stack) |-> stack[i][1]],
              LAMBDA f : f \in {"updateWebview", "handleSelectBaseFolder"})

\* function fn is entered by the innermost frame: the deepest chain is kept
Enter(m, stack, fn) ==
    IF Len(Chain(stack)) + 1 > Len(m.chain)
    THEN [m EXCEPT !.chain = Append(Chain(stack), fn)]
    ELSE m

\* a write that reaches the store only when its promise resolves
AwaitSaveConfig_WritesLate(m, cfg) ==
    IF IsSet(cfg) THEN saveConfig(m, Val(cfg)) ELSE m

\* await this.saveConfig(config) resolves: nothing is written at that time
AwaitSaveConfig(m, cfg) == m

RECURSIVE Return(_, _, _)
RECURSIVE Throw(_, _, _)

\* this.panel.webview.html = ...: a TypeError once this.panel is undefined
SetHtml(m, stack, page, cfg) ==
    IF ~m.panel
    THEN Throw(m, stack, "TypeError: Cannot read properties of undefined")
    ELSE IF page = "dashboard" THEN Return(getDashboardHtml(m, cfg), stack, None)
    ELSE Return([m EXCEPT !.html = page, !.shown = None], stack, None)

\* scanProjects up to its await on saveConfig
scanProjectsFrom(m, stack) ==
    LET r == scanProjects(m.config)
    IN  IF r.ok
        THEN Suspended([saveConfig(m, r.config) EXCEPT
                           !.scans = @ + 1, !.wrote = Append(@, "scanProjects")],
                       Append(stack, <<"scanProjects", "saveConfig">>),
                       Some(r.config))
        ELSE Throw(m, stack, r.error)

\* a setBaseProjectsFolder that opens the dialog again when it is cancelled
setBaseProjectsFolderAfterDialog_AsksAgain(m, stack, pick) ==
    IF ~IsSet(pick)
    THEN Suspended(m, Append(stack, <<"setBaseProjectsFolder", "showOpenDialog">>), None)
    ELSE Suspended([setBaseProjectsFolder(m, pick).m EXCEPT
                       !.wrote = Append(@, "setBaseProjectsFolder")],
                   Append(stack, <<"setBaseProjectsFolder", "saveConfig">>), None)

\* setBaseProjectsFolder once the dialog has returned pick, up to its await
\* on saveConfig
setBaseProjectsFolderAfterDialog(m, stack, pick) ==
    LET s == setBaseProjectsFolder(m, pick)
    IN  IF IsSet(s.thrown) THEN Throw(m, stack, Val(s.thrown))
        ELSE IF ~IsSet(s.result) THEN Return(m, stack, None)
        ELSE Suspended([s.m EXCEPT !.wrote = Append(@, "setBaseProjectsFolder")],
                       Append(stack, <<"setBaseProjectsFolder", "saveConfig">>),
                       None)

\* handleSelectBaseFolder up to the dialog of setBaseProjectsFolder
handleSelectBaseFolderFrom(m, stack) ==
    Suspended(Enter(m, stack, "handleSelectBaseFolder"),
              stack \o << <<"handleSelectBaseFolder", "setBaseProjectsFolder">>,
                          <<"setBaseProjectsFolder", "showOpenDialog">> >>,
              None)

\* updateWebview from its staleness test on
updateWebviewCheck(m, stack) ==
    IF IsStale(m.config)
    THEN scanProjectsFrom(m, Append(stack, <<"updateWebview", "scanProjects">>))
    ELSE SetHtml(m, stack, "dashboard", m.config)

updateWebviewFrom(m, stack) ==
    LET m1 == Enter(m, stack, "updateWebview")
    IN  IF ~m1.panel THEN Return(m1, stack, None)
        ELSE IF ~TruthyStr(m1.config.baseProjectsFolder)
        THEN handleSelectBaseFolderFrom(
                m1, Append(stack, <<"updateWebview", "handleSelectBaseFolder">>))
        ELSE updateWebviewCheck(m1, stack)

\* the awaited call of the innermost frame resolves with val
Return(m, stack, val) ==
    IF stack = <<>> THEN Suspended(m, <<>>, None)
    ELSE
      LET f == Top(stack)
          rest == Pop(stack)
      IN  CASE f = <<"setBaseProjectsFolder", "showOpenDialog">> ->
                  setBaseProjectsFolderAfterDialog(m, rest, val)
            [] f = <<"setBaseProjectsFolder", "saveConfig">> ->
                  Return(AwaitSaveConfig(m, None), rest, Some("folderPath"))
            [] f = <<"scanProjects", "saveConfig">> ->
                  Return(AwaitSaveConfig(m, val), rest, val)
            [] f = <<"handleSelectBaseFolder", "setBaseProjectsFolder">> ->
                  IF IsSet(val)
                  THEN scanProjectsFrom(
                          m, Append(rest, <<"handleSelectBaseFolder", "scanProjects">>))
                  ELSE Return(m, rest, None)
            [] f = <<"handleSelectBaseFolder", "scanProjects">> ->
                  updateWebviewFrom(
                      m, Append(rest, <<"handleSelectBaseFolder", "updateWebview">>))
            [] f = <<"updateWebview", "handleSelectBaseFolder">> ->
                  IF ~TruthyStr(m.config.baseProjectsFolder)
                  THEN SetHtml(m, rest, "noFolder", m.config)
                  ELSE updateWebviewCheck(m, rest)
            [] f = <<"updateWebview", "scanProjects">> ->
                  SetHtml(m, rest, "dashboard", Val(val))
            [] f = <<"rescanProjects", "scanProjects">> ->
                  updateWebviewFrom(
                      m, Append(rest, <<"rescanProjects", "updateWebview">>))
            [] f \in {<<"refreshGroup", "saveConfig">>, <<"sortProjects", "saveConfig">>} ->
                  updateWebviewFrom(AwaitSaveConfig(m, None),
                                    Append(rest, <<f[1], "updateWebview">>))
            [] OTHER -> Return(m, rest, None)

\* the awaited call of the innermost frame rejects with err: the catch of
\* the function of that frame, or of ProjectDashboard.open's caller
Throw(m, stack, err) ==
    IF stack = <<>> THEN Suspended(showErrorMessage(m, "Unhandled", err), <<>>, None)
    ELSE
      LET f == Top(stack)
          rest == Pop(stack)
          caught(prefix) == Return(showErrorMessage(m, prefix, err), rest, None)
      IN  CASE f[1] = "handleSelectBaseFolder" -> caught("Failed to set base folder")
            [] f[1] = "rescanProjects" -> caught("Failed to scan projects")
            [] f[1] = "refreshGroup" -> caught("Failed to refresh group")
            [] f[1] = "sortProjects" -> caught("Failed to sort projects")
            [] f[1] = "open" -> caught("Failed to open dashboard")
            [] f = <<"updateWebview", "scanProjects">> ->
                  SetHtml(showErrorMessage(m, "Failed to scan projects", err),
                          rest, "error", None)
            [] OTHER -> Throw(m, rest, err)

\* the configuration left by a session that scanned /p1 one tick ago
StaleConfig ==
    [baseProjectsFolder |-> Some("/p1"),
     projectsData |-> Some(ScanGroups(OnlyDirectories(TreeA.entries), 1, <<>>).data),
     lastScanTime |-> Some(TickMs),
     groupStates |-> None]

BeginStep ==
    [config |-> config, panel |-> panel, html |-> html, shown |-> shown,
     file |-> None, errors |-> <<>>, infos |-> <<>>, opened |-> <<>>,
     scans |-> 0, renders |-> 0, wrote |-> <<>>, chain |-> <<>>]

\* what `last` records of a step of handler op: whether it started or was
\* resumed, what it surfaced, which functions wrote the configuration, the
\* deepest chain of updateWebview and handleSelectBaseFolder activations,
\* and whether the handler has returned
RecordStep(step, op, arg, k) ==
    [op |-> op, arg |-> arg, step |-> step, errors |-> k.m.errors,
     scans |-> k.m.scans, renders |-> k.m.renders, wrote |-> k.m.wrote,
     chain |-> k.m.chain, done |-> k.stack = <<>>]

Busy == {s \in Slots : tasks[s] # Idle}

FreeSlot == CHOOSE s \in Slots \ Busy : \A r \in Slots \ Busy : s <= r

Settle(k, step, op, arg, s) ==
    /\ config' = k.m.config
    /\ panel' = k.m.panel
    /\ html' = k.m.html
    /\ shown' = k.m.shown
    /\ tasks' = [tasks EXCEPT ![s] =
                    IF k.stack = <<>> THEN Idle
                    ELSE [op |-> op, arg |-> arg, stack |-> k.stack, cfg |-> k.cfg]]
    /\ last' = RecordStep(step, op, arg, k)
    /\ UNCHANGED <<disk, now, exportFile>>

\* a message is dispatched to its handler: nothing waits for the handlers
\* that are suspended
Start(k, op, arg) ==
    /\ Busy # Slots
    /\ Settle(k, "start", op, arg, FreeSlot)

InitI ==
    /\ config \in {EmptyConfig, StaleConfig}
    /\ disk \in [Paths -> {TreeA, TreeB, TreeD}]
    /\ disk["/p1"] \in {TreeA, TreeB}
    /\ disk["/p2"] = TreeD
    /\ now = 2
    /\ panel = FALSE
    /\ html = "none"
    /\ shown = None
    /\ exportFile = None
    /\ last = RecordStep("init", "init", <<>>, Suspended(BeginStep, <<>>, None))
    /\ tasks = NoTasks

OpenI ==
    /\ ~panel
    /\ Start(updateWebviewFrom([BeginStep EXCEPT !.panel = TRUE],
                               << <<"open", "updateWebview">> >>),
             "open", <<>>)

DisposeI ==
    /\ panel
    /\ config' = config
    /\ panel' = FALSE
    /\ html' = "none"
    /\ shown' = None
    /\ last' = RecordStep("dispose", "dispose", <<>>, Suspended(BeginStep, <<>>, None))
    /\ UNCHANGED <<disk, now, exportFile, tasks>>

StartSelectBaseFolder ==
    /\ panel
    /\ html \in {"noFolder", "error", "dashboard"}
    /\ Start(handleSelectBaseFolderFrom(BeginStep, <<>>), "selectBaseFolder", <<>>)

StartRescan ==
    /\ panel
    /\ html \in {"error", "dashboard"}
    /\ Start(scanProjectsFrom(BeginStep, << <<"rescanProjects", "scanProjects">> >>),
             "rescanProjects", <<>>)

\* a handler that ends with updateWebview, up to its await on saveConfig
UpToSave(m, op, arg) ==
    LET quiet == [m EXCEPT !.panel = FALSE]
        saved == IF op = "refreshGroup" THEN refreshGroup(quiet, arg[1])
                 ELSE sortProjects(quiet, arg[1])
        m1 == [saved EXCEPT !.panel = m.panel]
    IN  IF m1.errors # <<>> \/ ~TruthyObj(m.config.projectsData)
        THEN Suspended(m1, <<>>, None)
        ELSE Suspended([m1 EXCEPT !.wrote = Append(@, op)],
                       << <<op, "saveConfig">> >>, None)

\* the refresh buttons and sort options followed in the interleaved runs
RefreshClicks == {"Work"}

SortChoices == {"name-asc"}

StartRefreshGroup ==
    \E g \in RefreshClicks :
        /\ panel
        /\ g \in ShownGroups
        /\ Start(UpToSave(BeginStep, "refreshGroup", <<g>>), "refreshGroup", <<g>>)

StartSort ==
    \E k \in SortChoices :
        /\ panel
        /\ html = "dashboard"
        /\ Start(UpToSave(BeginStep, "sortProjects", <<k>>), "sortProjects", <<k>>)

StartToggle ==
    \E g \in ToggleGroups :
        /\ panel
        /\ g \in ShownGroups
        /\ LET isExpanded == g \notin Val(shown).expanded
               page == [Val(shown) EXCEPT !.expanded =
                           IF isExpanded THEN @ \cup {g} ELSE @ \ {g}]
               m == handleToggleGroup([BeginStep EXCEPT !.shown = Some(page)],
                                      g, isExpanded)
           IN  Start(Suspended([m EXCEPT !.wrote = Append(@, "handleToggleGroup")],
                               << <<"handleToggleGroup", "saveConfig">> >>, None),
                     "toggleGroup", <<g, isExpanded>>)

\* the dialog that handler s waits for is answered, or its write acknowledged
ResumeSlot(s) ==
    /\ tasks[s] # Idle
    /\ \E pick \in (IF Top(tasks[s].stack) = <<"setBaseProjectsFolder", "showOpenDialog">>
                    THEN Picks ELSE {tasks[s].cfg}) :
          \E k \in {Return(BeginStep, tasks[s].stack, pick)} :
              Settle(k, "resume", tasks[s].op, tasks[s].arg, s)

Resume == \E s \in Slots : ResumeSlot(s)

NextI ==
    \/ OpenI
    \/ DisposeI
    \/ StartSelectBaseFolder
    \/ StartRescan
    \/ StartRefreshGroup
    \/ StartSort
    \/ StartToggle
    \/ Resume

Interleaved == InitI /\ [][NextI]_vars

\* the runs in which the panel is opened, closed and re-rendered by a rescan
\* or a change of base folder, with every dialog answered and every write
\* acknowledged in the end
NextRender ==
    \/ OpenI
    \/ DisposeI
    \/ StartSelectBaseFolder
    \/ StartRescan
    \/ Resume

FairRender ==
    InitI /\ [][NextRender]_vars /\ \A s \in Slots : WF_vars(ResumeSlot(s))

----------------------------------------------------------------------------
(* Colour extraction over every state of a settings file: the group Work   *)
(* of /p1 holds the projects a and b, each with any of the settings files  *)
(* below, and is scanned by an open, a rescan or a refresh of the group.   *)

SettingsFiles ==
    {NoSettings, Unreadable, Malformed}
        \cup {Settings(n, f) : n \in {None, Some(""), Some("#ff0000")},
                               f \in {None, Some(""), Some("#00ff00")}}

InitColors ==
    /\ config = [EmptyConfig EXCEPT !.baseProjectsFolder = Some("/p1")]
    /\ \E sa, sb \in SettingsFiles :
          disk = [p \in Paths |->
                     IF p = "/p1"
                     THEN Folder(<< GroupDir("Work", << ProjDir("a", sa),
                                                        ProjDir("b", sb) >>) >>)
                     ELSE TreeD]
    /\ now = 1
    /\ panel = FALSE
    /\ html = "none"
    /\ shown = None
    /\ exportFile = None
    /\ last = Record("init", <<>>, Begin)
    /\ tasks = NoTasks

NextColors ==
    \/ Open
    \/ Dispose
    \/ Rescan
    \/ RefreshGroup

Colors == InitColors /\ [][NextColors]_vars

----------------------------------------------------------------------------
(* Vocabulary of the properties *)

\* the names of the directories among the entries of a folder
DirectoryNames(entries) ==
    {entries[i].name : i \in {j \in 1..Len(entries) : entries[j].isDirectory}}

\* the directories directly under the base folder path, and under path/g
GroupsOnDisk(path) == DirectoryNames(disk[path].entries)

ProjectsOnDisk(path, g) == DirectoryNames(DirEntry(path, g).entries)

NameSet(projects) == {projects[j].name : j \in 1..Len(projects)}

\* projectsData of a configuration, as entries ({} when absent)
DataOf(cfg) == IF IsSet(cfg.projectsData) THEN Val(cfg.projectsData) ELSE <<>>

\* the entry of group g is the same in both configurations
SameGroup(old, new, g) ==
    /\ HasKey(DataOf(old), g) <=> HasKey(DataOf(new), g)
    /\ HasKey(DataOf(old), g) => Lookup(DataOf(old), g) = Lookup(DataOf(new), g)

MutatingOps ==
    {"selectBaseFolder", "rescanProjects", "refreshGroup", "sortProjects",
     "toggleGroup", "importConfig"}

\* the data is absent, or was scanned more than 24 hours ago
AbsentOrOld(cfg) ==
    \/ ~IsSet(cfg.projectsData)
    \/ ~IsSet(cfg.lastScanTime)
    \/ Val(cfg.lastScanTime) = 0
    \/ DateNow - Val(cfg.lastScanTime) > 24 * 60 * 60 * 1000

IsAscending(projects) ==
    \A i, j \in 1..Len(projects) :
        i < j => localeCompare(projects[i].name, projects[j].name) <= 0

----------------------------------------------------------------------------
(* C1: a successful full scan (the rescan action) persists a catalog whose *)
(* group keys are exactly the directories directly under the base folder,  *)
(* plain files excluded, and whose groups list exactly the directories     *)
(* under each group folder, once each; groups no longer on disk are gone,  *)
(* lastScanTime is the current time, and baseProjectsFolder and            *)
(* groupStates are what they were before the scan.                         *)

ScanMirrorsDisk(cfg) ==
    LET base == Val(cfg.baseProjectsFolder)
        data == DataOf(cfg)
    IN  /\ IsSet(cfg.projectsData)
        /\ KeySet(data) = GroupsOnDisk(base)
        /\ Len(data) = Cardinality(KeySet(data))
        /\ \A i \in 1..Len(data) :
              /\ NameSet(data[i].value) = ProjectsOnDisk(base, data[i].key)
              /\ Len(data[i].value) = Cardinality(NameSet(data[i].value))

C1_FullScanMirrorsDisk ==
    [][(last'.op = "rescanProjects" /\ last'.errors = <<>>) =>
          /\ ScanMirrorsDisk(config')
          /\ config'.lastScanTime = Some(DateNow)
          /\ config'.baseProjectsFolder = config.baseProjectsFolder
          /\ config'.groupStates = config.groupStates]_vars

\* a rescan of /p1 has dropped the imported group "apps", whose expand state
\* is still recorded, and has left out the plain file notes.txt
C1_Witness ==
    /\ last.op = "rescanProjects"
    /\ last.errors = <<>>
    /\ last.scans = 1
    /\ config.baseProjectsFolder = Some("/p1")
    /\ disk["/p1"] = TreeA
    /\ KeySet(DataOf(config)) = {"Work", "Home"}
    /\ IsSet(config.groupStates)
    /\ HasKey(Val(config.groupStates), "apps")

----------------------------------------------------------------------------
(* C2: when a refreshGroup(G) action has completed, re-render included,    *)
(* every entry of projectsData other than G and lastScanTime are the same  *)
(* as before the action.                                                   *)

C2_RefreshLeavesOthers ==
    [][last'.op = "refreshGroup" =>
          /\ config'.lastScanTime = config.lastScanTime
          /\ \A g \in GroupNames \ {last'.arg[1]} : SameGroup(config, config', g)]_vars

----------------------------------------------------------------------------
(* C3: a mutating user action that ends by surfacing an error message      *)
(* leaves the persisted configuration exactly as it was.                   *)

C3_FailedActionPersistsNothing ==
    [][(last'.op \in MutatingOps /\ last'.errors # <<>>) => config' = config]_vars

----------------------------------------------------------------------------
(* C4: whenever the view is about to display the catalog with the base     *)
(* folder set and the data absent or older than 24 hours, a full scan runs *)
(* first; every dashboard page written comes from a catalog whose          *)
(* lastScanTime is set and at most 24 hours old, and when that scan fails  *)
(* the error page is shown instead of the list.                            *)

C4_RenderedDataIsFresh ==
    [][/\ (last'.renders > 0 /\ html' = "dashboard") =>
             /\ IsSet(Val(shown').lastScanTime)
             /\ DateNow - Val(Val(shown').lastScanTime) <= 24 * 60 * 60 * 1000
             /\ ~AbsentOrOld(config')
       /\ (last'.op = "open" /\ IsSet(config.baseProjectsFolder)
             /\ AbsentOrOld(config)) =>
             \/ last'.scans = 1 /\ html' = "dashboard"
                  /\ Val(shown').lastScanTime = Some(DateNow)
             \/ last'.scans = 0 /\ html' = "error" /\ shown' = None
                  /\ last'.errors # <<>> /\ config' = config]_vars

\* the panel was opened on data scanned two days earlier and shows a
\* dashboard scanned just now
C4_Witness ==
    /\ last.op = "open"
    /\ last.scans = 1
    /\ last.renders = 1
    /\ html = "dashboard"
    /\ now = 2
    /\ Val(shown).lastScanTime = Some(DateNow)

----------------------------------------------------------------------------
(* C5: exporting the catalog and then importing the exported file, with    *)
(* the base folder still existing, leaves the persisted configuration      *)
(* equal to the one that was exported.                                     *)

C5_ExportImportRoundTrip ==
    [][(/\ last.op = "exportConfig"
        /\ IsSet(exportFile)
        /\ TruthyStr(config.baseProjectsFolder)
        /\ existsSync(Val(config.baseProjectsFolder))
        /\ ImportWith(exportFile, "none", None)) => config' = config]_vars

----------------------------------------------------------------------------
(* C6: importing a document in which baseProjectsFolder or projectsData is *)
(* absent fails with the invalid-configuration error and changes no field  *)
(* of the persisted configuration.                                         *)

LacksRequiredKey(doc) ==
    \/ ~IsSet(Member(doc.members, "baseProjectsFolder"))
    \/ ~IsSet(Member(doc.members, "projectsData"))

C6_InvalidImportRejected ==
    [][\A f \in SampleFiles :
          (/\ last'.op = "importConfig"
           /\ f.parsable
           /\ LacksRequiredKey(f)
           /\ ImportWith(Some(f), "none", None)) =>
              /\ config' = config
              /\ last'.errors =
                    << <<"Failed to import configuration",
                         "Invalid configuration file">> >>
              /\ last'.infos = <<>>]_vars

\* an import has just been rejected as an invalid configuration file while a
\* catalog with a base folder and groups was persisted
C6_Witness ==
    /\ last.op = "importConfig"
    /\ last.errors = << <<"Failed to import configuration",
                          "Invalid configuration file">> >>
    /\ IsSet(config.baseProjectsFolder)
    /\ IsSet(config.projectsData)
    /\ IsSet(config.groupStates)

----------------------------------------------------------------------------
(* C7: after an accepted import has completed, the persisted projectsData, *)
(* groupStates and lastScanTime are those of the imported document, an     *)
(* absent optional field being absent afterwards.                          *)

C7_ImportIsVerbatim ==
    [][\A f \in SampleFiles : \A answer \in Answers \cup {"none"} : \A pick \in Picks :
          (/\ last'.infos = <<"Configuration imported successfully!">>
           /\ ImportWith(Some(f), answer, pick)) =>
              /\ config'.projectsData = JsonParse(f).projectsData
              /\ config'.groupStates = JsonParse(f).groupStates
              /\ config'.lastScanTime = JsonParse(f).lastScanTime]_vars

----------------------------------------------------------------------------
(* C8: sort is idempotent: a sort by a criterion right after a sort by the *)
(* same criterion leaves the group order and every group's project order   *)
(* as the first sort left them.                                            *)

C8_SortIdempotent ==
    [][(/\ last.op = "sortProjects"
        /\ last'.op = "sortProjects"
        /\ last'.arg = last.arg) => config'.projectsData = config.projectsData]_vars

----------------------------------------------------------------------------
(* C9: a name-desc sort right after a name-asc sort leaves every group's   *)
(* project sequence the exact reverse of what the name-asc sort produced.  *)

C9_DescReversesAsc ==
    [][(/\ last.op = "sortProjects"
        /\ last.arg = <<"name-asc">>
        /\ last'.op = "sortProjects"
        /\ last'.arg = <<"name-desc">>) =>
          /\ Keys(DataOf(config')) = Keys(DataOf(config))
          /\ \A i \in 1..Len(DataOf(config)) :
                DataOf(config')[i].value = Reverse(DataOf(config)[i].value)]_vars

----------------------------------------------------------------------------
(* C10: after a name-asc sort action completes, every group has the same   *)
(* projects as before in ascending name order, and the group key order,    *)
(* baseProjectsFolder, lastScanTime and groupStates are unchanged.         *)

C10_NameAscSortsEveryGroup ==
    [][(last'.op = "sortProjects" /\ last'.arg = <<"name-asc">>) =>
          /\ Keys(DataOf(config')) = Keys(DataOf(config))
          /\ \A i \in 1..Len(DataOf(config)) :
                /\ NameSet(DataOf(config')[i].value) = NameSet(DataOf(config)[i].value)
                /\ Len(DataOf(config')[i].value) = Len(DataOf(config)[i].value)
                /\ IsAscending(DataOf(config')[i].value)
          /\ config'.baseProjectsFolder = config.baseProjectsFolder
          /\ config'.lastScanTime = config.lastScanTime
          /\ config'.groupStates = config.groupStates]_vars

----------------------------------------------------------------------------
(* C11: a group-asc (group-desc) sort leaves the keys of projectsData in   *)
(* ascending (descending) alphabetical order, here the order of the        *)
(* default string sort the code uses, with the same key set and with every *)
(* group's project sequence as it was.                                     *)

KeysInOrder(keys, descending) ==
    \A i, j \in 1..Len(keys) :
        i < j => IF descending
                 THEN CodeUnitRank(keys[i]) > CodeUnitRank(keys[j])
                 ELSE CodeUnitRank(keys[i]) < CodeUnitRank(keys[j])

----------------------------------------------------------------------------
(* C12: a sort by color leaves every group with all projects that have a   *)
(* color before all projects that have none, and with the projects of the  *)
(* same class in ascending name order.                                     *)

ColorOrdered(projects) ==
    \A i, j \in 1..Len(projects) :
        i < j =>
            /\ ~(~IsSet(projects[i].color) /\ IsSet(projects[j].color))
            /\ (IsSet(projects[i].color) <=> IsSet(projects[j].color)) =>
                  localeCompare(projects[i].name, projects[j].name) <= 0

C12_ColorSortOrders ==
    [][(last'.op = "sortProjects" /\ last'.arg = <<"color">>) =>
          \A i \in 1..Len(DataOf(config')) :
              ColorOrdered(DataOf(config')[i].value)]_vars

----------------------------------------------------------------------------
(* C13: after an input event of the search box, a project is visible iff   *)
(* its name contains the query ignoring case, a group is visible iff one   *)
(* of its projects is visible, and with the empty query every group is     *)
(* visible, a group without projects included.                             *)

Contains(name, query) ==
    includes(toLowerCase(Chars(name)), toLowerCase(Chars(query)))

C13_SearchVisibility ==
    [][last'.op = "search" =>
          LET query == last'.arg[1]
              found == last'.arg[2]
              data  == Val(shown).projectsData
          IN  \A i \in 1..Len(data) :
                /\ \A j \in 1..Len(data[i].value) :
                      <<data[i].key, data[i].value[j].name>> \in found.projects
                          <=> Contains(data[i].value[j].name, query)
                /\ data[i].key \in found.groups <=>
                      \/ query = ""
                      \/ \E j \in 1..Len(data[i].value) :
                            Contains(data[i].value[j].name, query)]_vars

----------------------------------------------------------------------------
(* C14: a full scan fails with the not-configured error when the base      *)
(* folder is unset and with the does-not-exist error when the base folder  *)
(* is gone; after a rescan action that failed, a failure while listing one *)
(* group folder after others were listed included, projectsData and        *)
(* lastScanTime are what they were.                                        *)

\* the folder is on disk, and so is the entry called name inside it
FolderExists(path) == path \in DOMAIN disk /\ disk[path].exists

EntryExists(path, name) ==
    FolderExists(path)
    /\ \E i \in 1..Len(disk[path].entries) : disk[path].entries[i].name = name

C14_FailedScanPersistsNothing ==
    [][/\ ~IsSet(config.baseProjectsFolder) =>
             scanProjects(config) = Thrown("Base projects folder not set")
       /\ (IsSet(config.baseProjectsFolder)
             /\ ~FolderExists(Val(config.baseProjectsFolder))) =>
             scanProjects(config) = Thrown("Base projects folder does not exist")
       /\ (last'.op = "rescanProjects"
             /\ ~FolderExists(Val(config.baseProjectsFolder))) =>
             last'.errors = << <<"Failed to scan projects",
                                 "Base projects folder does not exist">> >>
       /\ (last'.op = "rescanProjects" /\ last'.errors # <<>>) =>
             /\ config'.projectsData = config.projectsData
             /\ config'.lastScanTime = config.lastScanTime]_vars

\* a rescan of /p1 has failed on the unreadable group apps after listing
\* Work, and the catalog of the earlier scan is still persisted
C14_Witness ==
    /\ last.op = "rescanProjects"
    /\ last.errors = << <<"Failed to scan projects",
                          "EACCES: permission denied, scandir">> >>
    /\ config.baseProjectsFolder = Some("/p1")
    /\ disk["/p1"] = TreeB
    /\ KeySet(DataOf(config)) = {"Work", "Home"}
    /\ IsSet(config.lastScanTime)

----------------------------------------------------------------------------
(* C15: setBaseProjectsFolder fails and persists nothing when the chosen   *)
(* path does not exist; when it succeeds it persists the configuration     *)
(* with baseProjectsFolder changed and projectsData, lastScanTime and      *)
(* groupStates as they were, which is what stays persisted when the scan   *)
(* that follows fails.                                                     *)

C15_SetBaseFolderFrame ==
    [][\A pick \in Picks :
          (/\ last'.op = "selectBaseFolder"
           /\ IsSet(pick)
           /\ SelectBaseFolderWith(pick)) =>
              LET s == setBaseProjectsFolder(Begin, pick)
              IN  IF ~FolderExists(Val(pick))
                  THEN /\ IsSet(s.thrown)
                       /\ s.m.config = config
                       /\ config' = config
                       /\ last'.errors = << <<"Failed to set base folder",
                                              "Folder does not exist">> >>
                  ELSE /\ ~IsSet(s.thrown)
                       /\ s.result = pick
                       /\ s.m.config.baseProjectsFolder = pick
                       /\ s.m.config.projectsData = config.projectsData
                       /\ s.m.config.lastScanTime = config.lastScanTime
                       /\ s.m.config.groupStates = config.groupStates
                       /\ last'.errors # <<>> => config' = s.m.config]_vars

\* /p1 was chosen as the base folder and its scan failed: the catalog of
\* /p2 is persisted under the base folder /p1
C15_Witness ==
    /\ last.op = "selectBaseFolder"
    /\ last.errors = << <<"Failed to set base folder",
                          "EACCES: permission denied, scandir">> >>
    /\ config.baseProjectsFolder = Some("/p1")
    /\ KeySet(DataOf(config)) = {"9", "10"}
    /\ IsSet(config.lastScanTime)

----------------------------------------------------------------------------
(* C16: refreshGroup(G) surfaces an error and leaves the persisted         *)
(* configuration unchanged when the base folder is unset or the folder of  *)
(* G is not on disk: the entry of a group deleted on disk stays.           *)

C16_RefreshOfMissingGroupFails ==
    [][(/\ last'.op = "refreshGroup"
        /\ \/ ~IsSet(config.baseProjectsFolder)
           \/ ~EntryExists(Val(config.baseProjectsFolder), last'.arg[1])) =>
          /\ config' = config
          /\ Len(last'.errors) = 1
          /\ last'.errors[1][1] = "Failed to refresh group"
          /\ last'.scans = 0]_vars

\* the refresh of the imported group apps, which has no folder under /p1,
\* has failed and the group is still in the catalog
C16_Witness ==
    /\ last.op = "refreshGroup"
    /\ last.arg = <<"apps">>
    /\ last.errors = << <<"Failed to refresh group",
                          "Group folder does not exist">> >>
    /\ config.baseProjectsFolder = Some("/p1")
    /\ disk["/p1"] = TreeA
    /\ HasKey(DataOf(config), "apps")

----------------------------------------------------------------------------
(* C17: after a refreshGroup(G) that surfaced no error, the entry of G     *)
(* names exactly the directories now under the folder of G, once each:     *)
(* deleted projects are gone, new ones are there, and a group that had no  *)
(* entry has one.                                                          *)

C17_RefreshMirrorsGroupFolder ==
    [][(last'.op = "refreshGroup" /\ last'.errors = <<>>) =>
          LET G == last'.arg[1]
              base == Val(config'.baseProjectsFolder)
          IN  /\ HasKey(DataOf(config'), G)
              /\ NameSet(Lookup(DataOf(config'), G)) = ProjectsOnDisk(base, G)
              /\ Len(Lookup(DataOf(config'), G)) =
                    Cardinality(ProjectsOnDisk(base, G))]_vars

\* the group Home, on disk but not in the imported catalog, has got an
\* entry after the entries of the imported groups
C17_Witness ==
    /\ last.op = "refreshGroup"
    /\ last.arg = <<"Home">>
    /\ last.errors = <<>>
    /\ Keys(DataOf(config)) = <<"Work", "apps", "Home">>
    /\ NameSet(Lookup(DataOf(config), "Home")) = {"c"}

----------------------------------------------------------------------------
(* C18: in every reachable state the keys of projectsData are exactly the  *)
(* first-level directories the base folder had at the most recent full or  *)
(* per-group scan: a step that scans leaves the keys equal to the          *)
(* directories on disk, a step that does not scan leaves the key set as it *)
(* was.                                                                    *)

----------------------------------------------------------------------------
(* C19: the open action for groupName/projectName hands vscode.openFolder  *)
(* exactly <baseProjectsFolder>/<groupName>/<projectName>, with the base   *)
(* folder persisted at that moment, opens nothing when the base folder is  *)
(* unset, and leaves the persisted configuration as it was.                *)

C19_OpenResolvesUnderBase ==
    [][last'.op = "openProject" =>
          /\ config' = config
          /\ last'.opened =
                IF IsSet(config.baseProjectsFolder)
                THEN << <<Val(config.baseProjectsFolder),
                          last'.arg[1], last'.arg[2]>> >>
                ELSE <<>>]_vars

\* the page still shows the catalog of /p2 while /p1 is the persisted base
\* folder, and the click on 9/c has opened /p1/9/c
C19_Witness ==
    /\ last.op = "openProject"
    /\ last.opened = << <<"/p1", "9", "c">> >>
    /\ IsSet(shown)
    /\ Val(shown).baseProjectsFolder = Some("/p2")

----------------------------------------------------------------------------
(* C20: a toggle of group G to state e leaves groupStates[G] = e, for a G  *)
(* with no entry in projectsData as well, and changes nothing else:        *)
(* baseProjectsFolder, projectsData, lastScanTime and the state of every   *)
(* other group are as they were.                                           *)

StatesOf(cfg) == IF IsSet(cfg.groupStates) THEN Val(cfg.groupStates) ELSE <<>>

C20_ToggleRecordsOnlyG ==
    [][last'.op = "toggleGroup" =>
          LET G == last'.arg[1]
              e == last'.arg[2]
          IN  /\ IsSet(config'.groupStates)
              /\ HasKey(StatesOf(config'), G)
              /\ Lookup(StatesOf(config'), G) = e
              /\ \A h \in GroupNames \ {G} :
                    /\ HasKey(StatesOf(config'), h) <=> HasKey(StatesOf(config), h)
                    /\ HasKey(StatesOf(config), h) =>
                          Lookup(StatesOf(config'), h) = Lookup(StatesOf(config), h)
              /\ config'.baseProjectsFolder = config.baseProjectsFolder
              /\ config'.projectsData = config.projectsData
              /\ config'.lastScanTime = config.lastScanTime]_vars

\* the header of Work was clicked on a page that has since been replaced:
\* Work has a recorded state and no entry in the catalog, and the state of
\* another group is still recorded
C20_Witness ==
    /\ last.op = "toggleGroup"
    /\ last.arg[1] = "Work"
    /\ IsSet(config.projectsData)
    /\ ~HasKey(DataOf(config), "Work")
    /\ HasKey(StatesOf(config), "Work")
    /\ HasKey(StatesOf(config), "apps")

----------------------------------------------------------------------------
(* C21: every dashboard page that is written shows a group expanded exactly *)
(* when groupStates has the value true for it, and collapsed when it has no *)
(* entry; groupStates changes in toggle and import actions only, and a      *)
(* toggle of one group leaves the recorded state of the others, so the      *)
(* state a toggle recorded for G is what every later page shows until the   *)
(* next toggle of G or an import.                                           *)

RecordedExpanded(cfg, g) ==
    HasKey(StatesOf(cfg), g) /\ Lookup(StatesOf(cfg), g) = TRUE

C21_RenderShowsRecordedState ==
    [][/\ (last'.renders > 0 /\ html' = "dashboard") =>
             \A g \in KeySet(Val(shown').projectsData) :
                 g \in Val(shown').expanded <=> RecordedExpanded(config', g)
       /\ last'.op \notin {"toggleGroup", "importConfig"} =>
             config'.groupStates = config.groupStates
       /\ last'.op = "toggleGroup" =>
             \A h \in GroupNames \ {last'.arg[1]} :
                 RecordedExpanded(config', h) <=> RecordedExpanded(config, h)]_vars

\* after a toggle of Work and a later change of base folder and back, a
\* rescan has written a page with Work expanded and Home, which has no
\* recorded state, collapsed
C21_Witness ==
    /\ last.op = "rescanProjects"
    /\ last.renders = 1
    /\ html = "dashboard"
    /\ Val(shown).expanded = {"Work"}
    /\ HasKey(DataOf(config), "Home")
    /\ ~HasKey(StatesOf(config), "Home")
    /\ StatesOf(config) = <<Entry("Work", TRUE)>>

----------------------------------------------------------------------------
(* C22: an action in which the user cancels a dialog (the folder dialog of *)
(* select-base-folder or of the first open, the save dialog of export, the *)
(* open dialog of import, the missing-folder warning of import or the      *)
(* folder dialog that follows it) leaves the persisted configuration as it *)
(* was and surfaces no error message.                                      *)

C22_CancelIsNoOp ==
    [][/\ (last'.op = "selectBaseFolder" /\ SelectBaseFolderWith(None)) =>
             (config' = config /\ last'.errors = <<>>)
       /\ (last'.op = "open" /\ ~IsSet(config.baseProjectsFolder)
             /\ OpenWith(None)) =>
             (config' = config /\ last'.errors = <<>>)
       /\ (last'.op = "exportConfig" /\ ExportWith(FALSE)) =>
             (config' = config /\ last'.errors = <<>>)
       /\ (last'.op = "importConfig" /\ ImportWith(None, "none", None)) =>
             (config' = config /\ last'.errors = <<>>)
       /\ \A choice \in Choices :
             (/\ last'.op = "importConfig"
              /\ AsksForFolder(choice)
              /\ \/ ImportWith(choice, "dismissed", None)
                 \/ ImportWith(choice, "Yes", None)) =>
                (config' = config /\ last'.errors = <<>>)]_vars

----------------------------------------------------------------------------
(* C23: the staleness check and the full scan it causes happen only when   *)
(* the view is opened: no refresh-group, sort, toggle, export or import    *)
(* action runs a full scan, however old the persisted data is.             *)

C23_ScanOnlyAtOpen ==
    [][last'.op \in {"refreshGroup", "sortProjects", "toggleGroup",
                     "exportConfig", "importConfig"} => last'.scans = 0]_vars

----------------------------------------------------------------------------
(* C24: user actions are processed one at a time: no handler starts while  *)
(* an earlier handler is suspended at a dialog or a persistence write, and *)
(* no two handlers are inside a scan or a group refresh at the same time.  *)

\* the handler is suspended inside scanProjects or inside refreshGroup
InScanOrRefresh(t) ==
    t # Idle /\ Top(t.stack)[1] \in {"scanProjects", "refreshGroup"}

C24_OneHandlerAtATime ==
    [][/\ last'.step = "start" => Busy = {}
       /\ \A s1, s2 \in Slots :
             s1 # s2 => ~(InScanOrRefresh(tasks'[s1]) /\ InScanOrRefresh(tasks'[s2]))]_vars

----------------------------------------------------------------------------
(* C25: with handlers interleaved at their awaits, every write of the       *)
(* configuration by setBaseProjectsFolder, scanProjects, refreshGroup,      *)
(* sortProjects or handleToggleGroup is the configuration persisted at that *)
(* moment with only the operation's own fields changed; a step writes at    *)
(* most once, and a step that resumes a handler after its write changes     *)
(* nothing: no update persisted by a handler is replaced by older data.     *)

C25_WritesBuildOnCurrent ==
    [][/\ Len(last'.wrote) <= 1
       /\ last'.wrote = <<>> => config' = config
       /\ last'.wrote = <<"handleToggleGroup">> =>
             config' = [config EXCEPT !.groupStates =
                          Some(ObjSet(StatesOf(config), last'.arg[1], last'.arg[2]))]
       /\ last'.wrote = <<"setBaseProjectsFolder">> =>
             \E p \in Paths :
                 config' = [config EXCEPT !.baseProjectsFolder = Some(p)]
       /\ last'.wrote = <<"scanProjects">> =>
             /\ config' = [config EXCEPT !.projectsData = config'.projectsData,
                                         !.lastScanTime = Some(DateNow)]
             /\ ScanMirrorsDisk(config')
       /\ last'.wrote = <<"refreshGroup">> =>
             /\ config' = [config EXCEPT !.projectsData = config'.projectsData]
             /\ \A g \in GroupNames \ {last'.arg[1]} : SameGroup(config, config', g)
       /\ last'.wrote = <<"sortProjects">> =>
             config' = [config EXCEPT !.projectsData =
                          Some(SortedData(DataOf(config), last'.arg[1]))]]_vars

\* a toggle has written while a rescan is suspended at its write: the
\* configuration the scan holds is older than the persisted one
C25_Witness ==
    /\ last.wrote = <<"handleToggleGroup">>
    /\ \E s \in Slots :
          /\ tasks[s].op = "rescanProjects"
          /\ Top(tasks[s].stack) = <<"scanProjects", "saveConfig">>
          /\ Val(tasks[s].cfg).groupStates # config.groupStates
          /\ Val(tasks[s].cfg).projectsData = config.projectsData

----------------------------------------------------------------------------
(* C26: whatever the settings file of a project is (absent, unreadable,    *)
(* malformed, JSON without the key, with an empty value, with the nested   *)
(* form, the flat form or both), a scan or refresh of its group surfaces   *)
(* no error and lists the project, with the value of the nested form when  *)
(* that form has one, else with the value of the flat form when that has   *)
(* one, else with no colour.                                               *)

\* the colour a settings file asks for
ColorHint(file) ==
    IF file.state = "json" /\ file.nested \notin {None, Some("")} THEN file.nested
    ELSE IF file.state = "json" /\ file.flat \notin {None, Some("")} THEN file.flat
    ELSE None

C26_ColorExtractionIsTotal ==
    [][last'.op \in {"open", "rescanProjects", "refreshGroup"} =>
          LET dirs == DirEntry("/p1", "Work").entries
          IN  /\ last'.errors = <<>>
              /\ HasKey(DataOf(config'), "Work")
              /\ Lookup(DataOf(config'), "Work") =
                    [i \in 1..Len(dirs) |->
                        ProjectInfo(dirs[i].name, ColorHint(dirs[i].settings))]]_vars

\* project a has both forms and is listed with the nested value; project b
\* has a malformed settings file and is listed without a colour
C26_Witness ==
    /\ last.op = "refreshGroup"
    /\ last.errors = <<>>
    /\ DirEntry("/p1", "Work").entries[1].settings =
          Settings(Some("#ff0000"), Some("#00ff00"))
    /\ DirEntry("/p1", "Work").entries[2].settings = Malformed
    /\ Lookup(DataOf(config), "Work") =
          <<ProjectInfo("a", Some("#ff0000")), ProjectInfo("b", None)>>

----------------------------------------------------------------------------
(* C27: when the base folder of the imported document is not on disk and   *)
(* the user answers the warning with anything but Yes, or answers Yes and  *)
(* cancels the folder dialog, the import surfaces an error and leaves the  *)
(* persisted configuration as it was; when the import does persist the     *)
(* document, its base folder is the folder picked in that dialog.          *)

C27_ImportNeedsSelectedFolder ==
    [][\A choice \in Choices : \A answer \in Answers : \A pick \in Picks :
          (/\ last'.op = "importConfig"
           /\ AsksForFolder(choice)
           /\ answer = "Yes" \/ pick = None
           /\ ImportWith(choice, answer, pick)) =>
              IF answer = "Yes" /\ IsSet(pick)
              THEN "Configuration imported successfully!" \in
                      {last'.infos[i] : i \in 1..Len(last'.infos)} =>
                         config'.baseProjectsFolder = pick
              ELSE /\ config' = config
                   /\ last'.errors # <<>>]_vars

----------------------------------------------------------------------------
(* C28: when a handler is resumed after the panel was disposed, it raises  *)
(* no error for want of the panel and writes no page.                      *)

C28_DisposedPanelIsHarmless ==
    [][(last'.step = "resume" /\ ~panel) =>
          /\ \A i \in 1..Len(last'.errors) :
                last'.errors[i][2] # "TypeError: Cannot read properties of undefined"
          /\ html' = "none"
          /\ last'.renders = 0]_vars

----------------------------------------------------------------------------
(* C29: with every dialog answered and every write acknowledged in the end, *)
(* every handler that has started returns; updateWebview and                *)
(* handleSelectBaseFolder are never nested deeper than updateWebview ->     *)
(* handleSelectBaseFolder -> updateWebview; an open that returns with the   *)
(* panel still there has written the no-folder page, the error page or the  *)
(* dashboard: the no-folder page only with the base folder unset, the error *)
(* page only with a failed scan surfaced, the dashboard with its content.   *)

AllowedChains ==
    {<<>>, <<"updateWebview">>, <<"handleSelectBaseFolder">>,
     <<"handleSelectBaseFolder", "updateWebview">>,
     <<"updateWebview", "handleSelectBaseFolder">>,
     <<"updateWebview", "handleSelectBaseFolder", "updateWebview">>}

C29_RenderTerminates ==
    /\ [][/\ last'.chain \in AllowedChains
          /\ (last'.op = "open" /\ last'.done /\ panel') =>
                html' \in {"noFolder", "error", "dashboard"}
          /\ (html' = "noFolder" /\ html # "noFolder") =>
                ~IsSet(config'.baseProjectsFolder)
          /\ (html' = "error" /\ html # "error") =>
                \E i \in 1..Len(last'.errors) :
                    last'.errors[i][1] = "Failed to scan projects"
          /\ html' = "dashboard" => IsSet(shown')]_vars
    /\ \A s \in Slots : (tasks[s] # Idle) ~> (tasks[s] = Idle)

\* the first open has asked for the base folder, scanned it and rendered
\* from the inner updateWebview and again from the outer one
C29_Witness ==
    /\ last.op = "open"
    /\ last.done
    /\ last.chain = <<"updateWebview", "handleSelectBaseFolder", "updateWebview">>
    /\ last.renders = 2
    /\ html = "dashboard"

----------------------------------------------------------------------------
(* C30: once the persisted configuration has a base folder it has one in   *)
(* every later state, and once it has groups data it keeps having groups   *)
(* data: no scan, refresh, sort, toggle, change of base folder or import,  *)
(* accepted or rejected, takes either of them away                         *)

C30_CatalogIsKept ==
    [][/\ TruthyStr(config.baseProjectsFolder) =>
              TruthyStr(config'.baseProjectsFolder)
       /\ TruthyObj(config.projectsData) =>
              /\ TruthyObj(config'.projectsData)
              /\ TruthyStr(config'.baseProjectsFolder)]_vars

\* after a change of base folder to /p2, an import naming a folder that is
\* gone has just been declined: the base folder and the groups data persisted
\* before it are still there
C30_Witness ==
    /\ last.op = "importConfig"
    /\ last.errors = << <<"Failed to import configuration",
                          "Base folder does not exist">> >>
    /\ config.baseProjectsFolder = Some("/p2")
    /\ TruthyObj(config.projectsData)

====
